---- MODULE Spec2Model ----
(***************************************************************************)
(* HashCache and PersistentHashCache of packages/core/src/modules/cache.ts *)
(* as a state machine.  One cache instance; its callers, the timers it     *)
(* arms and the file operations it starts are the actions.                 *)
(*                                                                         *)
(* Time is the integer clock `now` (milliseconds).  A timer may fire at    *)
(* any moment at or after its due time: the scheduler promises no more.    *)
(* The clock advances by one millisecond or jumps to the due time of a     *)
(* pending timer, so the real constants (one hour, five seconds) are kept. *)
(***************************************************************************)
EXTENDS Integers, Sequences, FiniteSets, Bags, TLC

\* ------------------------------------------------------------ bounds
\* Pending timeouts (expiry and debounce together) the model lets exist at once.
MaxTimers == 2
\* Clock advances (ticks and jumps together) in one behaviour.
MaxAdvance == 2
\* Pending timeouts in the capacity model, whose clock stands still.
MaxCapTimers == 3

\* ------------------------------------------------------------ values
\* JavaScript's null and undefined (an omitted argument or option) where a
\* number may stand: TLC compares a number only with numbers, so the two are
\* numbers no TTL or capacity of the model takes.
Null == -1
Undef == -2
\* What Map.get returns for a key that is not there.
undefined == "undefined"
\* No key (an operation that takes none).
NoKey == ""

\* Keys callers use; "0" is an integer-like key (JavaScript objects list
\* those first, whatever the insertion order).
Keys == {"0", "a"}
\* The capacity model needs one key more than the largest capacity.
CapKeys == {"0", "a", "b"}
\* Cached values (text).
Values == {"1", "2"}
\* The ttl argument of set: omitted, an explicit null, or a number of ms.
TtlArgs == {Undef, Null, 2}
\* options.ttl and options.maxEntries given to the constructor.
OptTtls == {Null, 2}
OptMaxEntries == {Null, 0, 1}
CapOptMaxEntries == {0, 1, 2}

\* HashCache.defaults
DefaultTtl == 1000 * 60 * 60
DefaultMaxEntries == Null

\* a ?? b
Coalesce(a, b) == IF a = Undef \/ a = Null THEN b ELSE a
\* typeof x === 'number'
IsNumber(x) == x >= 0

VARIABLES
    persistent,   \* TRUE: the instance is a PersistentHashCache
    optTtl,       \* options.ttl as the caller passed it (never changes)
    ttl,          \* this.ttl
    maxEntries,   \* this.maxEntries
    cache,        \* this._cache: the entries in insertion order
    expiryMap,    \* this.expiryMap: key -> [ts, timeout], for the keys that have a record
    timers,       \* the scheduler's pending timeouts (a bag)
    throttleSaveCacheTimeout,  \* this._throttleSaveCacheTimeout
    now,          \* Date.now()
    advances,     \* clock advances so far
    setInfo,      \* per present key: when it was last set, and the ttl argument given
    log,          \* capacity model: the keys set since the cache was last empty
    inserted,     \* capacity model: what the contract has the store hold (see Inserted)
    reset,        \* capacity model: the key the last operation set again, and whether this set evicted it
    lastOp,       \* the operation that produced this state
    file,         \* the text of the file at _cachePath (or that there is none)
    cacheHash,    \* this._cacheHash
    cacheFileExists,  \* this._cacheFileExists
    io,           \* the file operations in flight
    restarts,     \* how often the process was started again on the same file
    fileStore,    \* the entries of the store whose snapshot the file holds, if it holds one
    mutated,      \* calls of set, delete and clear since the last throttleSaveRun
    rt,           \* the set(K, V) whose way to the next instance is followed
    calls,        \* calls of set, delete and clear on the layer so far
    since,        \* "saved": the last save's write is done and the store is as it was when that save ran
    touched       \* the keys set on this instance

\* ------------------------------------------------------------ Map<K, V>
\* A JavaScript Map as the sequence of its entries in insertion order.
mapKeys(m) == {m[i].k : i \in 1..Len(m)}
mapHas(m, k) == k \in mapKeys(m)
mapGet(m, k) ==
    IF mapHas(m, k) THEN (CHOOSE e \in {m[i] : i \in 1..Len(m)} : e.k = k).v ELSE undefined
\* A map whose set moves a key that is already present to the end.
mapSetMovingLast(m, k, v) == Append(SelectSeq(m, LAMBDA e : e.k # k), [k |-> k, v |-> v])
\* set keeps the position of a key that is already present
mapSet(m, k, v) ==
    IF mapHas(m, k)
    THEN [i \in 1..Len(m) |-> IF m[i].k = k THEN [k |-> k, v |-> v] ELSE m[i]]
    ELSE Append(m, [k |-> k, v |-> v])
mapDelete(m, k) == SelectSeq(m, LAMBDA e : e.k # k)
\* A Map keyed by a subset of the keys, as a function on that subset.
Without(f, k) == [x \in DOMAIN f \ {k} |-> f[x]]
With(f, k, v) == [x \in DOMAIN f \cup {k} |-> IF x = k THEN v ELSE f[x]]
EmptyMap == [x \in {} |-> 0]

\* ------------------------------------------------------------ timers
\* setTimeout / clearTimeout on the scheduler's bag of pending timeouts.  Two
\* pending timeouts with the same callback and due time are interchangeable.
setTimeout(c, t) == [c EXCEPT !.timers = @ (+) SetToBag({t})]
clearTimeout(c, t) == [c EXCEPT !.timers = @ (-) SetToBag({t})]
NoTimeout == [kind |-> "none", id |-> NoKey, due |-> 0]

RECURSIVE clearTimeouts(_, _)
clearTimeouts(c, ks) ==
    IF ks = {} THEN c
    ELSE LET k == CHOOSE x \in ks : TRUE
         IN clearTimeouts(clearTimeout(c, c.expiryMap[k].timeout), ks \ {k})

\* The mutable fields of the instance and the scheduler's timeouts, as the
\* methods below pass them on.
This ==
    [cache |-> cache, expiryMap |-> expiryMap, timers |-> timers,
     throttle |-> throttleSaveCacheTimeout]

\* ------------------------------------------------------------ PersistentHashCache: the debounce
CachePath == ".cache"
CacheSaveEvery == 5000

\* throttleSaveCache(): nothing when a save is scheduled, else a timeout that
\* runs throttleSaveRun after _cacheSaveEvery ms.
throttleSaveCacheAlways(c) ==
    LET timeout == [kind |-> "save", id |-> CachePath, due |-> now + CacheSaveEvery]
    IN [setTimeout(c, timeout) EXCEPT !.throttle = timeout]
throttleSaveCache(c) ==
    IF c.throttle # NoTimeout THEN c
    ELSE LET timeout == [kind |-> "save", id |-> CachePath, due |-> now + CacheSaveEvery]
         IN [setTimeout(c, timeout) EXCEPT !.throttle = timeout]

\* ------------------------------------------------------------ HashCache
\* constructor: the fields (options.x ?? HashCache.defaults.x)
ConstructTtl(o) == Coalesce(o, DefaultTtl)
ConstructMaxEntries(o) == Coalesce(o, DefaultMaxEntries)

hasTTL == ttl # Null

hasMaxEntriesNoOffset(c, offset) == maxEntries # Null /\ Len(c.cache) >= maxEntries
hasMaxEntries(c, offset) == maxEntries # Null /\ Len(c.cache) + offset >= maxEntries

\* get(id), has(id): what the call leaves of the instance, and what it returns.
getRefreshing(c, id) ==
    IF id \notin DOMAIN c.expiryMap THEN c
    ELSE LET old == c.expiryMap[id].timeout
             new == [old EXCEPT !.due = now + (old.due - c.expiryMap[id].ts)]
         IN [setTimeout(clearTimeout(c, old), new)
               EXCEPT !.expiryMap = With(@, id, [ts |-> now, timeout |-> new])]
getTouching(c, id) ==
    IF mapHas(c.cache, id)
    THEN [c EXCEPT !.cache = Append(mapDelete(@, id), [k |-> id, v |-> mapGet(@, id)])]
    ELSE c
get(c, id) == c
getValue(c, id) == mapGet(c.cache, id)
has(c, id) == c
hasValue(c, id) == mapHas(c.cache, id)

\* HashCache.delete(id): the entry and the expiryMap record go; the timeout is
\* not cleared.
deleteKeepingRecord(c, id) == [c EXCEPT !.cache = mapDelete(@, id)]
HashCache_delete(c, id) ==
    [c EXCEPT !.cache = mapDelete(@, id), !.expiryMap = Without(@, id)]
deleteValue(c, id) == mapHas(c.cache, id)
deleteWithoutSave(c, id) == HashCache_delete(c, id)
PersistentHashCache_delete(c, id) == throttleSaveCache(HashCache_delete(c, id))
\* this.delete(id)
delete(c, id) ==
    IF persistent THEN PersistentHashCache_delete(c, id) ELSE HashCache_delete(c, id)

\* clear()
HashCache_clear(c) ==
    LET d == clearTimeouts(c, DOMAIN c.expiryMap)
    IN [d EXCEPT !.cache = <<>>, !.expiryMap = EmptyMap]
PersistentHashCache_clear(c) == throttleSaveCache(HashCache_clear(c))
clear(c) ==
    IF persistent THEN PersistentHashCache_clear(c) ELSE HashCache_clear(c)

\* handleConstraints(id, ttl), first half: the expiry timeout.
armExpiry(c, id, t) ==
    IF IsNumber(t) \/ hasTTL
    THEN LET d == IF id \in DOMAIN c.expiryMap
                  THEN clearTimeout(c, c.expiryMap[id].timeout) ELSE c
             timeout == [kind |-> "expire", id |-> id,
                         due |-> now + (IF IsNumber(t) THEN t ELSE ttl)]
         IN [setTimeout(d, timeout)
               EXCEPT !.expiryMap = With(@, id, [ts |-> now, timeout |-> timeout])]
    ELSE c
\* handleConstraints(id, ttl), second half: one eviction when over capacity.
evictLast(c) ==
    IF hasMaxEntries(c, -1)
    THEN IF Len(c.cache) = 0 THEN c ELSE delete(c, c.cache[Len(c.cache)].k)
    ELSE c
evictFirst(c) ==
    IF hasMaxEntries(c, -1)
    THEN IF Len(c.cache) = 0 THEN c ELSE delete(c, c.cache[1].k)
    ELSE c
HashCache_handleConstraints(c, id, t) == evictFirst(armExpiry(c, id, t))
PersistentHashCache_handleConstraints(c, id, t) ==
    throttleSaveCache(HashCache_handleConstraints(c, id, t))
handleConstraints(c, id, t) ==
    IF persistent THEN PersistentHashCache_handleConstraints(c, id, t)
    ELSE HashCache_handleConstraints(c, id, t)

\* set(id, value, ttl = this.ttl): an omitted ttl takes the default; null stays null.
TtlParam(t) == IF t = Undef THEN ttl ELSE t
HashCache_set(c, id, value, t) ==
    handleConstraints([c EXCEPT !.cache = mapSet(@, id, value)], id, TtlParam(t))
PersistentHashCache_set(c, id, value, t) == throttleSaveCache(HashCache_set(c, id, value, t))
set(c, id, value, t) ==
    IF persistent THEN PersistentHashCache_set(c, id, value, t)
    ELSE HashCache_set(c, id, value, t)

\* The expiry timeout's callback: () => this.delete(id)
expire(c, t) == delete(clearTimeout(c, t), t.id)

\* ------------------------------------------------------------ bookkeeping
\* The effective TTL the contract gives a set: the override when one is given
\* (null included), else the cache default.
EffectiveTtl(t) == IF t = Undef THEN ttl ELSE t
\* The pending expiry timeouts whose callback deletes key k.
ExpiryTimeouts(k) == {t \in BagToSet(timers) : t.kind = "expire" /\ t.id = k}
\* The last operation was a read of the key that stands first in the store.
ReadFirst == lastOp.op \in {"get", "has"} /\ cache # <<>> /\ lastOp.id = cache[1].k
\* setInfo once the instance holds c.cache: keys that left lose theirs.
Forget(info, c) == [k \in DOMAIN info \cap mapKeys(c.cache) |-> info[k]]
\* The capacity model's log: the distinct keys set, in order, since the cache
\* was last empty; Tainted once a key was set twice or an entry deleted.
Tainted == <<NoKey>>
Logged(l, id) ==
    IF l = Tainted \/ id \in {l[i] : i \in 1..Len(l)} THEN Tainted ELSE Append(l, id)
\* The capacity model's reference store: the present keys in the order of their
\* first insertion since they were last absent, each with the value last set.
\* A set of a present key changes its value where it stands, a set of an
\* absent key adds it last; over capacity, the oldest insertion leaves.
Inserted(s, id, value) ==
    LET at == {i \in 1..Len(s) : s[i].k = id}
        put == IF at = {}
               THEN s \o <<[k |-> id, v |-> value]>>
               ELSE [i \in 1..Len(s) |-> IF i \in at THEN [k |-> id, v |-> value] ELSE s[i]]
    IN IF maxEntries # Null /\ Len(put) > maxEntries THEN Tail(put) ELSE put
Removed(s, id) == SelectSeq(s, LAMBDA e : e.k # id)
\* The key that set has just set again while it was present (NoKey when the
\* last operation was no such set), and whether the set that followed evicted
\* that very key, the oldest insertion, for capacity.
NoReset == [id |-> NoKey, evicted |-> FALSE]
Reset(s, id) ==
    [id |-> IF \E i \in 1..Len(s) : s[i].k = id THEN id ELSE NoKey,
     evicted |-> /\ s # <<>>
                 /\ s[1].k = reset.id
                 /\ s[1].k # id
                 /\ maxEntries # Null
                 /\ Len(s) + 1 > maxEntries
                 /\ \A i \in 1..Len(s) : s[i].k # id]

Apply(c) ==
    /\ cache' = c.cache
    /\ expiryMap' = c.expiryMap
    /\ timers' = c.timers
    /\ throttleSaveCacheTimeout' = c.throttle

Config == <<persistent, optTtl, ttl, maxEntries>>
Clock == <<now, advances>>

\* ------------------------------------------------------------ actions
\* new HashCache(options)
Construct(optsTtl, optsMaxEntries) ==
    /\ optTtl \in optsTtl
    /\ ttl = ConstructTtl(optTtl)
    /\ \E o \in optsMaxEntries : maxEntries = ConstructMaxEntries(o)
    /\ cache = <<>>
    /\ expiryMap = EmptyMap
    /\ timers = EmptyBag
    /\ throttleSaveCacheTimeout = NoTimeout
    /\ now = 0
    /\ advances = 0
    /\ setInfo = EmptyMap
    /\ log = <<>>
    /\ inserted = <<>>
    /\ reset = NoReset
    /\ lastOp = [op |-> "new", id |-> NoKey]

Set(id, value, t) ==
    LET c == set(This, id, value, t)
    IN /\ Apply(c)
       /\ setInfo' = Forget(With(setInfo, id, [at |-> now, arg |-> t]), c)
       /\ lastOp' = [op |-> "set", id |-> id, afterReadOfFirst |-> ReadFirst]
       /\ UNCHANGED <<Config, Clock>>

Delete(id) ==
    LET c == delete(This, id)
    IN /\ Apply(c)
       /\ setInfo' = Forget(setInfo, c)
       /\ lastOp' = [op |-> "delete", id |-> id, ret |-> deleteValue(This, id)]
       /\ UNCHANGED <<Config, Clock>>

Clear ==
    LET c == clear(This)
    IN /\ Apply(c)
       /\ setInfo' = Forget(setInfo, c)
       /\ lastOp' = [op |-> "clear", id |-> NoKey]
       /\ UNCHANGED <<Config, Clock>>

Get(id) ==
    /\ Apply(get(This, id))
    /\ lastOp' = [op |-> "get", id |-> id]
    /\ UNCHANGED <<Config, Clock, setInfo>>

Has(id) ==
    /\ Apply(has(This, id))
    /\ lastOp' = [op |-> "has", id |-> id]
    /\ UNCHANGED <<Config, Clock, setInfo>>

\* A pending expiry timeout fires, at or after its due time.
Expire(t) ==
    /\ t.kind = "expire"
    /\ t.due <= now
    /\ LET c == expire(This, t)
       IN /\ Apply(c)
          /\ setInfo' = Forget(setInfo, c)
          /\ lastOp' = [op |-> "expire", id |-> t.id]
    /\ UNCHANGED <<Config, Clock>>

\* Time passes: one millisecond, or up to the due time of a pending timeout.
Advance(to) ==
    /\ advances < MaxAdvance
    /\ to > now
    /\ now' = to
    /\ advances' = advances + 1
    /\ lastOp' = [op |-> "advance", id |-> NoKey]
    /\ UNCHANGED <<Config, cache, expiryMap, timers, throttleSaveCacheTimeout, setInfo>>

\* The model's bound on pending timeouts.
Room(n) == BagCardinality(timers') <= n

\* ------------------------------------------------------------ JSON and the file
\* A text: an object's properties in the order written, unparseable text, the
\* text "null", or no file at all.
Doc(t, e) == [t |-> t, e |-> e]
NoFile == Doc("absent", <<>>)
EmptyDoc == Doc("object", <<>>)
InvalidDoc == Doc("invalid", <<>>)
NullDoc == Doc("null", <<>>)
\* The text ["2"].
ArrayDoc == Doc("array", <<[k |-> "0", v |-> "2"]>>)
\* A property value that is not text (a number).
NotText == "5"
\* No fingerprint yet (_cacheHash = null).
NoHash == Doc("nohash", <<>>)

\* The keys JavaScript treats as array indices: an object lists them first.
IntegerKeys == {"0"}
\* The order in which an object lists own properties that were created in the
\* order of e: integer-like keys first, then the others as created.
PropertyOrder(e) ==
    SelectSeq(e, LAMBDA x : x.k \in IntegerKeys) \o SelectSeq(e, LAMBDA x : x.k \notin IntegerKeys)
PropertyOrderAsCreated(e) == e
\* JavaScript values: an object with its properties in its own order, an array
\* (its elements as properties "0", "1", ...), or null.
Object(props) == [type |-> "object", props |-> props]
Array(props) == [type |-> "array", props |-> props]
JsNull == [type |-> "null", props |-> <<>>]
\* Object.fromEntries(map.entries())
ObjectFromEntries(m) == Object(PropertyOrder(m))
\* JSON.stringify(value): an object's properties as the object lists them.
JSONstringify(value) ==
    IF value.type \in {"object", "array"} THEN Doc(value.type, value.props) ELSE NullDoc
\* JSON.parse(text), for a text that parses.
JSONparse(text) ==
    IF text.t = "object" THEN Object(PropertyOrder(text.e))
    ELSE IF text.t = "array" THEN Array(text.e)
    ELSE JsNull
\* Object.entries(value), for an object or an array.
ObjectEntries(value) == value.props

\* computeAnyHash(value): the digest of JSON.stringify(value).  The digest is
\* taken to be collision-free, so it stands for the text it was made from.
computeAnyHash(value) == JSONstringify(value)

\* The text saveCache writes for the store m.
Snapshot(m) == JSONstringify(ObjectFromEntries(m))
\* The store as a set of entries.
Entries(m) == {m[i] : i \in 1..Len(m)}
NoStore == {[k |-> NoKey, v |-> ""]}

\* loadCache's loop: every text-valued property is set into the store.
RECURSIVE populateAll(_, _)
populateAll(m, e) ==
    IF e = <<>> THEN m
    ELSE populateAll(mapSet(m, Head(e).k, Head(e).v), Tail(e))
RECURSIVE populateKeepingExisting(_, _)
populateKeepingExisting(m, e) ==
    IF e = <<>> THEN m
    ELSE populateKeepingExisting(
            IF Head(e).v # NotText /\ ~mapHas(m, Head(e).k)
            THEN mapSet(m, Head(e).k, Head(e).v) ELSE m,
            Tail(e))
RECURSIVE populate(_, _)
populate(m, e) ==
    IF e = <<>> THEN m
    ELSE populate(IF Head(e).v # NotText THEN mapSet(m, Head(e).k, Head(e).v) ELSE m, Tail(e))

\* Files in flight: a write of data, or the read of loadCache; `then` is what
\* runs when it completes, `store` the entries a snapshot was made of and
\* `rt` marks the write that carries the followed set.
WriteOp(data, then, store, tag) ==
    [op |-> "write", data |-> data, then |-> then, store |-> store, rt |-> tag]
ReadOp == [op |-> "read", data |-> NoFile, then |-> "load", store |-> NoStore, rt |-> FALSE]
Drop(q, i) == SubSeq(q, 1, i - 1) \o SubSeq(q, i + 1, Len(q))

NoRT == [k |-> NoKey, v |-> "", stage |-> "none"]

PVars == <<file, cacheHash, cacheFileExists, io, restarts, fileStore, mutated, rt, calls, since, touched>>

\* ------------------------------------------------------------ HashCache, with its clock
NoPersistence ==
    /\ persistent = FALSE
    /\ file = NoFile
    /\ cacheHash = NoHash
    /\ cacheFileExists = FALSE
    /\ io = <<>>
    /\ restarts = 0
    /\ fileStore = NoStore
    /\ mutated = 0
    /\ rt = NoRT
    /\ calls = 0
    /\ since = "dirty"
    /\ touched = {}

Init ==
    /\ NoPersistence
    /\ Construct(OptTtls, OptMaxEntries)

Next ==
    \/ \E id \in Keys, value \in Values, t \in TtlArgs :
          Set(id, value, t) /\ Room(MaxTimers) /\ UNCHANGED <<log, inserted, reset, PVars>>
    \/ \E id \in Keys : Delete(id) /\ UNCHANGED <<log, inserted, reset, PVars>>
    \/ Clear /\ UNCHANGED <<log, inserted, reset, PVars>>
    \/ \E id \in Keys : Get(id) /\ UNCHANGED <<log, inserted, reset, PVars>>
    \/ \E id \in Keys : Has(id) /\ UNCHANGED <<log, inserted, reset, PVars>>
    \/ \E t \in BagToSet(timers) : Expire(t) /\ UNCHANGED <<log, inserted, reset, PVars>>
    \/ \E to \in {now + 1} \cup {t.due : t \in BagToSet(timers)} :
          Advance(to) /\ UNCHANGED <<log, inserted, reset, PVars>>

vars == <<persistent, optTtl, ttl, maxEntries, cache, expiryMap, timers,
          throttleSaveCacheTimeout, now, advances, setInfo, log, inserted, reset, lastOp,
          file, cacheHash, cacheFileExists, io, restarts, fileStore, mutated, rt, calls, since, touched>>

Spec == Init /\ [][Next]_vars

\* ------------------------------------------------------------ HashCache, capacity
\* The same cache with three keys and no expiry: the clock stands still, so no
\* timeout comes due.
InitCap ==
    /\ NoPersistence
    /\ Construct(OptTtls, CapOptMaxEntries)

NextCap ==
    \/ \E id \in CapKeys, value \in Values, t \in TtlArgs :
          /\ Set(id, value, t) /\ Room(MaxCapTimers) /\ log' = Logged(log, id)
          /\ inserted' = Inserted(inserted, id, value) /\ reset' = Reset(inserted, id)
          /\ UNCHANGED PVars
    \/ \E id \in CapKeys :
          /\ Delete(id) /\ log' = (IF cache' = <<>> THEN <<>> ELSE Tainted)
          /\ inserted' = Removed(inserted, id) /\ reset' = NoReset /\ UNCHANGED PVars
    \/ Clear /\ log' = <<>> /\ inserted' = <<>> /\ reset' = NoReset /\ UNCHANGED PVars
    \/ \E id \in CapKeys : Get(id) /\ reset' = NoReset /\ UNCHANGED <<log, inserted, PVars>>
    \/ \E id \in CapKeys : Has(id) /\ reset' = NoReset /\ UNCHANGED <<log, inserted, PVars>>

SpecCap == InitCap /\ [][NextCap]_vars

\* ------------------------------------------------------------ PersistentHashCache
PKeys == {"0", "a"}
POptTtls == {Null, 2}
PTtlArgs == {Undef}
\* The layer's callers store "1"; "2" is what an earlier process left in the file.
PValues == {"1"}
POptMaxEntries == {Null, 1}
\* What the file may hold when the first instance is constructed.
InitialFiles ==
    { NoFile,
      InvalidDoc,
      NullDoc,
      ArrayDoc,
      Doc("object", <<[k |-> "a", v |-> "2"], [k |-> "b", v |-> "2"], [k |-> "0", v |-> NotText]>>) }
\* File operations the model lets be in flight at once.
MaxIO == 2
\* Instances constructed after the first, each on the file the last one left.
MaxRestarts == 1
\* Calls of set, delete and clear on the layer in one run.
MaxCalls == 2

\* The constructor's loadCache(), up to its first await: ensureCacheFileExists
\* finds the file (and loadCache goes on to read it) or starts writing "{}".
StartLoad(exists, q) ==
    IF file = NoFile
    THEN exists = FALSE /\ q = <<WriteOp(JSONstringify(Object(<<>>)), "loadEnsure", NoStore, FALSE)>>
    ELSE exists = TRUE /\ q = <<ReadOp>>

InitP ==
    /\ persistent = TRUE
    /\ Construct(POptTtls, POptMaxEntries)
    /\ file \in InitialFiles
    /\ cacheHash = NoHash
    /\ StartLoad(cacheFileExists, io)
    /\ restarts = 0
    /\ fileStore = NoStore
    /\ mutated = 0
    /\ rt = NoRT
    /\ calls = 0
    /\ since = "dirty"
    /\ touched = {}

Disk == <<file, cacheHash, cacheFileExists, io, restarts, fileStore>>

\* set, delete and clear on the layer; the caller's last plain set(K, V) on the
\* first instance is followed.
PSet(id, value, t) ==
    /\ Set(id, value, t)
    /\ Room(MaxTimers + 1)
    /\ calls < MaxCalls
    /\ calls' = calls + 1
    /\ mutated' = mutated + 1
    /\ rt' = IF t = Undef /\ restarts = 0 THEN [k |-> id, v |-> value, stage |-> "set"] ELSE NoRT
    /\ since' = "dirty"
    /\ touched' = touched \cup {id}
    /\ UNCHANGED <<log, inserted, reset, Disk>>

PDelete(id) ==
    /\ Delete(id)
    /\ Room(MaxTimers + 1)
    /\ calls < MaxCalls
    /\ calls' = calls + 1
    /\ mutated' = mutated + 1
    /\ rt' = NoRT
    /\ since' = "dirty"
    /\ UNCHANGED <<log, inserted, reset, Disk, touched>>

PClear ==
    /\ Clear
    /\ Room(MaxTimers + 1)
    /\ calls < MaxCalls
    /\ calls' = calls + 1
    /\ mutated' = mutated + 1
    /\ rt' = NoRT
    /\ since' = "dirty"
    /\ UNCHANGED <<log, inserted, reset, Disk, touched>>

\* An expiry timeout fires on the layer: this.delete is the layer's.
PExpire(t) ==
    /\ Expire(t)
    /\ since' = "dirty"
    /\ UNCHANGED <<log, inserted, reset, Disk, mutated, rt, calls, touched>>

\* ensureCacheFileExists' write of "{}" for loadCache is done: the flag is set
\* and loadCache reads the file.
EnsureWritten(i) ==
    /\ io[i].then = "loadEnsure"
    /\ file' = io[i].data
    /\ fileStore' = NoStore
    /\ cacheFileExists' = TRUE
    /\ io' = Append(Drop(io, i), ReadOp)
    /\ lastOp' = [op |-> "ensured", id |-> NoKey]
    /\ UNCHANGED <<Config, Clock, cache, expiryMap, timers, throttleSaveCacheTimeout,
                   setInfo, log, inserted, reset, cacheHash, restarts, mutated, rt, calls, since, touched>>

\* The same write for saveCache is done: the flag is set and saveCache writes
\* the store as it is now.
SaveEnsureWritten(i) ==
    /\ io[i].then = "saveEnsure"
    /\ file' = io[i].data
    /\ fileStore' = NoStore
    /\ cacheFileExists' = TRUE
    /\ io' = Append(Drop(io, i), WriteOp(Snapshot(cache), "none", Entries(cache), io[i].rt))
    /\ lastOp' = [op |-> "saveEnsured", id |-> NoKey]
    /\ UNCHANGED <<Config, Clock, cache, expiryMap, timers, throttleSaveCacheTimeout,
                   setInfo, log, inserted, reset, cacheHash, restarts, mutated, rt, calls, since, touched>>

\* saveCache's write is done.
SnapshotWritten(i) ==
    /\ io[i].op = "write"
    /\ io[i].then = "none"
    /\ file' = io[i].data
    /\ fileStore' = io[i].store
    /\ io' = Drop(io, i)
    /\ rt' = IF io[i].rt /\ rt.stage = "writing" THEN [rt EXCEPT !.stage = "written"] ELSE rt
    /\ since' = IF since = "ran" /\ io' = <<>> THEN "saved" ELSE since
    /\ lastOp' = [op |-> "written", id |-> NoKey]
    /\ UNCHANGED <<Config, Clock, cache, expiryMap, timers, throttleSaveCacheTimeout,
                   setInfo, log, inserted, reset, cacheHash, cacheFileExists, restarts, mutated, calls, touched>>

\* loadCache from its readFile on: what JSON.parse gives ({} where it throws).
loadParsed(text) == IF text.t = "invalid" THEN Object(<<>>) ELSE JSONparse(text)
loadCacheDroppingLast(c, text) ==
    LET e == ObjectEntries(loadParsed(text))
    IN [c EXCEPT !.cache = populate(@, SubSeq(e, 1, Len(e) - 1))]
loadCacheArming(c, text) ==
    LET e == SelectSeq(ObjectEntries(loadParsed(text)), LAMBDA x : x.v # NotText)
        loaded == [c EXCEPT !.cache = populate(@, e)]
    IN IF e = <<>> THEN loaded ELSE armExpiry(loaded, e[1].k, ttl)
loadCache(c, text) ==
    [c EXCEPT !.cache = populate(@, ObjectEntries(loadParsed(text)))]

\* readFile is done and the text parses to an object or an array (or does not
\* parse): the
\* fingerprint, the entries, and the constructor's then(): throttleSaveCache.
LoadRead(i) ==
    /\ io[i].op = "read"
    /\ loadParsed(file).type \in {"object", "array"}
    /\ cacheHash' = computeAnyHash(loadParsed(file))
    /\ Apply(throttleSaveCache(loadCache(This, file)))
    /\ io' = Drop(io, i)
    /\ rt' = IF rt.stage = "reload" THEN [rt EXCEPT !.stage = "loaded"] ELSE rt
    /\ lastOp' = [op |-> "load", id |-> NoKey]
    /\ since' = IF cache' = cache THEN since ELSE "dirty"
    /\ UNCHANGED <<Config, Clock, setInfo, log, inserted, reset, file, cacheFileExists, restarts,
                   fileStore, mutated, calls, touched>>

\* readFile is done and the text is "null": Object.entries(null) throws, the
\* promise of loadCache rejects and the constructor's then() never runs.
LoadFail(i) ==
    /\ io[i].op = "read"
    /\ loadParsed(file).type = "null"
    /\ cacheHash' = computeAnyHash(loadParsed(file))
    /\ io' = Drop(io, i)
    /\ rt' = NoRT
    /\ lastOp' = [op |-> "loadFailed", id |-> NoKey]
    /\ UNCHANGED <<Config, Clock, cache, expiryMap, timers, throttleSaveCacheTimeout,
                   setInfo, log, inserted, reset, file, cacheFileExists, restarts, fileStore, mutated,
                   calls, since, touched>>

\* What fs.existsSync(_cachePath) may answer: whether there is a file, and
\* either while a write that creates it is in flight.
existsSync ==
    IF file # NoFile THEN {TRUE}
    ELSE IF \E i \in 1..Len(io) : io[i].op = "write" THEN {TRUE, FALSE}
    ELSE {FALSE}

\* The debounce timeout fires: throttleSaveRun, and saveCache up to its write.
SaveRun(t) ==
    /\ t.kind = "save"
    /\ t.due <= now
    /\ Len(io) < MaxIO
    /\ timers' = timers (-) SetToBag({t})
    /\ throttleSaveCacheTimeout' = NoTimeout
    /\ mutated' = 0
    /\ LET currCacheHash == computeAnyHash(ObjectFromEntries(cache))
           follow == rt.stage = "set"
       IN IF currCacheHash = cacheHash
          THEN /\ UNCHANGED <<cacheHash, cacheFileExists, io, rt, since>>
               /\ lastOp' = [op |-> "saveRun", id |-> NoKey, saved |-> FALSE, n |-> mutated]
          ELSE /\ cacheHash' = currCacheHash
               /\ \E exists \in existsSync :
                     /\ cacheFileExists' = (cacheFileExists \/ exists)
                     /\ io' = Append(io,
                           IF cacheFileExists \/ exists
                           THEN WriteOp(Snapshot(cache), "none", Entries(cache), follow)
                           ELSE WriteOp(JSONstringify(Object(<<>>)), "saveEnsure", NoStore, follow))
               /\ rt' = IF follow THEN [rt EXCEPT !.stage = "writing"] ELSE rt
               /\ since' = "ran"
               /\ lastOp' = [op |-> "saveRun", id |-> NoKey, saved |-> TRUE, n |-> mutated]
    /\ UNCHANGED <<Config, Clock, cache, expiryMap, setInfo, log, inserted, reset, file, restarts, fileStore,
                   calls, touched>>

\* The process ends with no file operation in flight (its timeouts, which are
\* unref'd, do not keep it alive) and a new instance is constructed on the file.
Restart ==
    /\ restarts < MaxRestarts
    /\ io = <<>>
    /\ restarts' = restarts + 1
    /\ cache' = <<>>
    /\ expiryMap' = EmptyMap
    /\ timers' = EmptyBag
    /\ throttleSaveCacheTimeout' = NoTimeout
    /\ setInfo' = EmptyMap
    /\ cacheHash' = NoHash
    /\ StartLoad(cacheFileExists', io')
    /\ mutated' = 0
    /\ rt' = IF rt.stage = "written" THEN [rt EXCEPT !.stage = "reload"] ELSE NoRT
    /\ lastOp' = [op |-> "new", id |-> NoKey]
    /\ since' = "dirty"
    /\ touched' = {}
    /\ UNCHANGED <<Config, Clock, log, inserted, reset, file, fileStore, calls>>

NextP ==
    \/ \E id \in PKeys, value \in PValues, t \in PTtlArgs : PSet(id, value, t)
    \/ \E id \in PKeys : PDelete(id)
    \/ PClear
    \/ \E t \in BagToSet(timers) : PExpire(t)
    \/ \E to \in {t.due : t \in BagToSet(timers)} : Advance(to) /\ UNCHANGED <<log, inserted, reset, PVars>>
    \/ \E t \in BagToSet(timers) : SaveRun(t)
    \/ \E i \in 1..Len(io) : EnsureWritten(i)
    \/ \E i \in 1..Len(io) : SaveEnsureWritten(i)
    \/ \E i \in 1..Len(io) : SnapshotWritten(i)
    \/ \E i \in 1..Len(io) : LoadRead(i)
    \/ \E i \in 1..Len(io) : LoadFail(i)
    \/ Restart

SpecP == InitP /\ [][NextP]_vars

\* ------------------------------------------------------------ PersistentHashCache, while time passes
\* The same layer for what happens in the end.  Time passes to the due time of
\* a pending timeout whenever there is one ahead; a timeout that is due fires
\* and a file operation in flight completes, as long as the process lives: a
\* process whose only pending work is timeouts (all unref'd) may end.
Pass(to) ==
    /\ to > now
    /\ now' = to
    /\ lastOp' = [op |-> "advance", id |-> NoKey]
    /\ UNCHANGED <<Config, advances, cache, expiryMap, timers, throttleSaveCacheTimeout,
                   setInfo, log, inserted, reset, PVars>>

Elapse == \E to \in {t.due : t \in BagToSet(timers)} : Pass(to)
SaveRuns == \E t \in BagToSet(timers) : SaveRun(t)
Expiries == \E t \in BagToSet(timers) : PExpire(t)
FileOps ==
    \E i \in 1..Len(io) :
       EnsureWritten(i) \/ SaveEnsureWritten(i) \/ SnapshotWritten(i) \/ LoadRead(i) \/ LoadFail(i)

NextL ==
    \/ \E id \in PKeys, value \in PValues, t \in PTtlArgs : PSet(id, value, t)
    \/ \E id \in PKeys : PDelete(id)
    \/ PClear
    \/ Elapse
    \/ SaveRuns
    \/ Expiries
    \/ FileOps
    \/ Restart

Fairness ==
    /\ WF_vars(Elapse)
    /\ WF_vars(SaveRuns)
    /\ WF_vars(Expiries)
    /\ WF_vars(FileOps)

\* A layer of capacity one on no file, on a text that does not parse, and on a
\* document of two entries and a value that is no text.
InitL ==
    /\ InitP
    /\ optTtl = Null
    /\ maxEntries = 1
    /\ file \in {NoFile, InvalidDoc, NullDoc} \cup {f \in InitialFiles : f.t = "object"}

SpecL == InitL /\ [][NextL]_vars /\ Fairness

\* ------------------------------------------------------------ properties
\* An expiry timeout has just fired and removed the entry of key k.
Expired(k) ==
    /\ lastOp'.op = "expire"
    /\ lastOp'.id = k
    /\ mapHas(cache, k)
    /\ ~mapHas(cache', k)

\* C1: TTL is measured from the most recent set: a timeout that fires and
\* removes the entry of K does so no earlier than the effective TTL after the
\* most recent set of K (an entry set without expiry is C2's and C3's matter).
C1_TtlFromLastSet ==
    [][\A k \in DOMAIN setInfo :
          (Expired(k) /\ IsNumber(EffectiveTtl(setInfo[k].arg)))
             => now >= setInfo[k].at + EffectiveTtl(setInfo[k].arg)]_vars

\* C2: on a cache configured with ttl = null, an entry set with no ttl
\* argument is never removed by a timeout firing.
C2_NoSpontaneousExpiry ==
    [][\A k \in DOMAIN setInfo :
          (optTtl = Null /\ setInfo[k].arg = Undef) => ~Expired(k)]_vars

\* C3: when set(K, V, null) has returned, K has no expiryMap record and no
\* pending expiry timeout.
C3_NullOverrideMeansNoExpiry ==
    (/\ lastOp.op = "set"
     /\ lastOp.id \in DOMAIN setInfo
     /\ setInfo[lastOp.id].arg = Null)
       => (lastOp.id \notin DOMAIN expiryMap /\ ExpiryTimeouts(lastOp.id) = {})

\* C4: when delete(K) returns, K is in neither the store nor expiryMap, no
\* expiry timeout of K is pending, and the call returned whether K had an entry.
C4_DeleteRemovesEntryAndTimer ==
    [][lastOp'.op = "delete" =>
          (/\ ~mapHas(cache', lastOp'.id)
           /\ lastOp'.id \notin DOMAIN expiryMap'
           /\ \A t \in BagToSet(timers') : ~(t.kind = "expire" /\ t.id = lastOp'.id)
           /\ lastOp'.ret = mapHas(cache, lastOp'.id))]_vars

\* C5: when clear() returns, the store and expiryMap are empty and no expiry
\* timeout armed before the call is pending.
C5_ClearCancelsAllTimers ==
    lastOp.op = "clear" =>
       (/\ cache = <<>>
        /\ expiryMap = EmptyMap
        /\ \A t \in BagToSet(timers) : t.kind # "expire")

\* C6: N + 1 distinct keys set into an empty cache of capacity N leave exactly
\* the last N of them, in insertion order, whatever was read in between.
StoreKeys == [i \in 1..Len(cache) |-> cache[i].k]
C6_FirstInsertedEvicted ==
    (log # Tainted /\ Len(log) = maxEntries + 1) => StoreKeys = Tail(log)
\* Three keys went into a cache of capacity two, the first of them read just
\* before the third was set.
C6_Witness ==
    /\ log # Tainted
    /\ maxEntries = 2
    /\ Len(log) = 3
    /\ lastOp.op = "set"
    /\ lastOp.afterReadOfFirst
    /\ Len(cache) = 2

\* C8: get and has change neither the store nor expiryMap nor any timeout.
C8_ReadsArePure ==
    [][lastOp'.op \in {"get", "has"} =>
          UNCHANGED <<cache, expiryMap, timers, throttleSaveCacheTimeout>>]_vars
\* A key was read later than it was set, its expiry timeout still pending.
C8_Witness ==
    /\ lastOp.op = "get"
    /\ lastOp.id \in DOMAIN expiryMap
    /\ now > expiryMap[lastOp.id].ts
    /\ BagIn(expiryMap[lastOp.id].timeout, timers)

\* C7: with maxEntries = N, the store holds at most N entries whenever set,
\* delete or clear has returned, on the durable layer as on the core cache.
C7_CapacityBound ==
    (lastOp.op \in {"set", "delete", "clear"} /\ maxEntries # Null)
       => Len(cache) <= maxEntries

\* C9, as claimed: once set(K, V) on the first instance was followed by a save
\* run whose write completed, the next instance on the same file holds K -> V
\* when its load has completed.
C9_RoundTrip ==
    (lastOp.op = "load" /\ rt.stage = "loaded") => mapGet(cache, rt.k) = rt.v
\* C9: a load of a file that holds a snapshot gives the store exactly the
\* entries of the store that snapshot was taken of (the last write to have
\* completed), over whatever the instance was given before its load completed.
C9_LoadsLastCompletedSnapshot ==
    [][(lastOp'.op = "load" /\ fileStore # NoStore) =>
          (/\ \A e \in fileStore : mapGet(cache', e.k) = e.v
           /\ mapKeys(cache') = mapKeys(cache) \cup {e.k : e \in fileStore}
           /\ \A k \in mapKeys(cache) \ {e.k : e \in fileStore} :
                 mapGet(cache', k) = mapGet(cache, k))]_vars
\* The second instance has loaded the snapshot the first one wrote after
\* set(K, V), and holds K -> V.
C9_Witness ==
    /\ lastOp.op = "load"
    /\ restarts = 1
    /\ rt.stage = "loaded"
    /\ [k |-> rt.k, v |-> rt.v] \in fileStore
    /\ mapGet(cache, rt.k) = rt.v

\* The pending debounce timeouts.
SaveTimeouts == {t \in BagToSet(timers) : t.kind = "save"}
OneSaveTimeout ==
    /\ BagCardinality(timers) - BagCardinality(timers (-) SetToBag(SaveTimeouts)) <= 1
    /\ \A t \in SaveTimeouts : CopiesIn(t, timers) = 1
    /\ (throttleSaveCacheTimeout # NoTimeout) = (SaveTimeouts # {})
\* C10, as claimed: a save run that follows n >= 1 calls of set, delete or
\* clear starts one write, and no more than one debounce timeout is ever
\* pending.
C10_ExactlyOneWrite ==
    [][/\ OneSaveTimeout'
       /\ (lastOp'.op = "saveRun" /\ lastOp'.n >= 1) =>
             (/\ Len(io') = Len(io) + 1
              /\ io'[Len(io')].op = "write")]_vars
\* C10: a save run ends the interval (no debounce timeout is left pending) and
\* starts at most one write: none when the fingerprint of the store is
\* _cacheHash, else one, of the store as it is then or, where the file is yet
\* to be created, of "{}" with the store following as it is when that is done;
\* and no more than one debounce timeout is ever pending.
C10_AtMostOneWritePerInterval ==
    [][/\ OneSaveTimeout'
       /\ lastOp'.op = "saveRun" =>
             (/\ SaveTimeouts' = {}
              /\ throttleSaveCacheTimeout' = NoTimeout
              /\ IF computeAnyHash(ObjectFromEntries(cache)) = cacheHash
                 THEN io' = io
                 ELSE /\ Len(io') = Len(io) + 1
                      /\ SubSeq(io', 1, Len(io)) = io
                      /\ io'[Len(io')].op = "write"
                      /\ \/ io'[Len(io')].data = Snapshot(cache)
                         \/ /\ ~cacheFileExists
                            /\ file = NoFile
                            /\ io'[Len(io')].then = "saveEnsure"
                            /\ io'[Len(io')].data = JSONstringify(Object(<<>>)))]_vars
\* Two calls were made within one interval and the save run that ended it
\* started the one write.
C10_Witness ==
    /\ lastOp.op = "saveRun"
    /\ lastOp.n >= 2
    /\ lastOp.saved
    /\ io # <<>>
    /\ io[Len(io)].data = Snapshot(cache)
    /\ cache # <<>>

\* C11: a save run that finds the fingerprint of the store equal to _cacheHash
\* starts no write and clears the schedule; and a save run that follows a save
\* whose write is done, the store being as it was when that save ran, starts
\* no write.
C11_NoOpSave ==
    [][lastOp'.op = "saveRun" =>
          (/\ computeAnyHash(ObjectFromEntries(cache)) = cacheHash =>
                 (/\ io' = io
                  /\ throttleSaveCacheTimeout' = NoTimeout
                  /\ SaveTimeouts' = {})
           /\ since = "saved" => io' = io)]_vars

\* The key -> text entries of a document: those of an object's properties
\* whose value is a text, and none of a document that is no object.
WellFormedEntries(text) ==
    IF text.t = "object"
    THEN SelectSeq(PropertyOrder(text.e), LAMBDA x : x.v # NotText)
    ELSE <<>>
\* C12: whatever the file holds, the load completes without an error, it puts
\* into the store the key -> text entries of the document and nothing else, and
\* the debounce is armed when it is done.
C12_MalformedDocumentLoads ==
    [][lastOp'.op \in {"load", "loadFailed"} =>
          (/\ lastOp'.op = "load"
           /\ cache' = populateAll(cache, WellFormedEntries(file))
           /\ throttleSaveCacheTimeout' # NoTimeout
           /\ SaveTimeouts' # {})]_vars

\* C13: _cacheHash changes only when a load completes (or a new instance
\* starts without one) and when the write of a save is done, and then to the
\* fingerprint of what the file holds.
C13_FingerprintOfDisk ==
    [][cacheHash' # cacheHash =>
          (\/ lastOp'.op \in {"load", "loadFailed", "new"}
           \/ /\ lastOp'.op = "written"
              /\ cacheHash' = computeAnyHash(JSONparse(file')))]_vars

\* C14: every key that has an expiryMap record has an entry in the store (and
\* expiryMap, a Map, holds one record per key).
C14_ExpiryTableConsistent ==
    DOMAIN expiryMap \subseteq mapKeys(cache)
\* An expiry timeout has fired and removed its key with its record, and
\* another key still has its record.
C14_Witness ==
    /\ lastOp.op = "expire"
    /\ ~mapHas(cache, lastOp.id)
    /\ expiryMap # EmptyMap
    /\ \E k \in DOMAIN expiryMap : BagIn(expiryMap[k].timeout, timers)

\* The store's keys once set has put id into the store, before capacity is
\* looked at: a new key goes last, a key that has an entry keeps its place.
KeysAfterInsertion(id) ==
    IF mapHas(cache, id) THEN StoreKeys ELSE Append(StoreKeys, id)
\* C15: a set removes, for capacity, the first key of the store and no other
\* when the store holds more than maxEntries entries after the insertion, and
\* removes nothing otherwise.
C15_SingleEvictionPerSet ==
    [][lastOp'.op = "set" =>
          StoreKeys' = IF /\ maxEntries # Null
                          /\ Len(KeysAfterInsertion(lastOp'.id)) > maxEntries
                       THEN Tail(KeysAfterInsertion(lastOp'.id))
                       ELSE KeysAfterInsertion(lastOp'.id)]_vars
\* The first key of a full cache of capacity two was set again and nothing was
\* evicted.
C15_Witness ==
    /\ lastOp.op = "set"
    /\ maxEntries = 2
    /\ Len(cache) = 2
    /\ cache[1].k = lastOp.id

\* After set, delete, clear and an expiry firing, a debounce timeout is pending.
SaveScheduled ==
    lastOp.op \in {"set", "delete", "clear", "expire"} =>
       (throttleSaveCacheTimeout # NoTimeout /\ SaveTimeouts # {})
\* C16, as claimed: when set, delete or clear has returned and when an expiry
\* timeout has fired, a debounce timeout is pending, and a pending debounce
\* timeout leads to the save run of the instance that armed it.
C16_MutationMirroring ==
    /\ []SaveScheduled
    /\ \A r \in 0..MaxRestarts :
          (restarts = r /\ SaveTimeouts # {}) ~> (restarts = r /\ lastOp.op = "saveRun")
\* C16: the same, the save running unless the process has ended before.
C16_MirroringWhileAlive ==
    /\ []SaveScheduled
    /\ \A r \in 0..MaxRestarts :
          (restarts = r /\ SaveTimeouts # {}) ~> (lastOp.op = "saveRun" \/ restarts > r)
\* An expiry timeout has fired, removed its entry and armed the debounce.
C16_Witness ==
    /\ lastOp.op = "expire"
    /\ lastOp.id \in touched
    /\ ~mapHas(cache, lastOp.id)
    /\ throttleSaveCacheTimeout.due = now + CacheSaveEvery
    /\ BagIn(throttleSaveCacheTimeout, timers)

\* The keys whose values a load takes from the text.
LoadedKeys(text) ==
    LET e == ObjectEntries(loadParsed(text))
    IN {e[i].k : i \in {j \in 1..Len(e) : e[j].v # NotText}}
\* C17, as claimed: when the load of a key -> text document has completed, no
\* key whose value came from the file has an expiryMap record or a pending
\* expiry timeout.
C17_LoadedEntriesHaveNoExpiry ==
    [][(lastOp'.op = "load" /\ file.t = "object") =>
          \A k \in LoadedKeys(file) :
             k \notin DOMAIN expiryMap' /\ ExpiryTimeouts(k)' = {}]_vars
\* C17: a key of the store that was never set on this instance (its value
\* came from the file) has no expiryMap record and no pending expiry timeout,
\* and no timeout that fires removes it.
C17_UnsetLoadedEntriesNeverExpire ==
    [][/\ \A k \in mapKeys(cache') \ touched' :
             k \notin DOMAIN expiryMap' /\ ExpiryTimeouts(k)' = {}
       /\ \A k \in mapKeys(cache) \ touched : ~Expired(k)]_vars
\* A key loaded from the file is in the store after the default TTL has
\* passed since the load and the timeout of another key has fired.
C17_Witness ==
    /\ lastOp.op = "expire"
    /\ lastOp.id \in touched
    /\ now >= ttl
    /\ mapKeys(cache) \ touched # {}

\* C18: set, delete and clear are accepted while the load is in flight, and
\* when the load completes every key the file gives a text for has the file's
\* value in the store, whatever a call had made of it before.
C18_LoadOverwrites ==
    [][lastOp'.op = "load" =>
          LET e == ObjectEntries(loadParsed(file))
          IN \A i \in 1..Len(e) :
                e[i].v # NotText => mapGet(cache', e[i].k) = e[i].v]_vars
\* set(K, V) returned before the load completed, no call followed it, and
\* after the load the store holds the file's value for K, which is not V.
C18_Witness ==
    /\ lastOp.op = "load"
    /\ restarts = 0
    /\ rt.stage = "set"
    /\ file.t = "object"
    /\ rt.k \in LoadedKeys(file)
    /\ mapHas(cache, rt.k)
    /\ mapGet(cache, rt.k) # rt.v

\* C19: ensureCacheFileExists probes for the file once: a save run that
\* starts a write finds _cacheFileExists set.
C19_ExistenceGuardOnce ==
    [][(lastOp'.op = "saveRun" /\ lastOp'.saved) => cacheFileExists]_vars

\* No save is scheduled or in flight and the file holds the serialization of
\* the store.
Durable ==
    /\ SaveTimeouts = {}
    /\ io = <<>>
    /\ file = Snapshot(cache)
\* C20: calls being finitely many and every timeout firing in the end, there
\* is a point from which on no save is scheduled or in flight and the file
\* holds the serialization of the store.
C20_EventualDurability == <>[]Durable


\* The expiry timeout of id as the set of id that has just returned left it:
\* recorded now, pending, due after the ttl of this set, the one it replaces
\* cancelled.
Rearmed(id) ==
    /\ id \in DOMAIN expiryMap'
    /\ expiryMap'[id].ts = now
    /\ expiryMap'[id].timeout.due =
          now + (IF IsNumber(setInfo'[id].arg) THEN setInfo'[id].arg ELSE ttl)
    /\ id \in DOMAIN expiryMap
    /\ timers' = (timers (-) SetToBag({expiryMap[id].timeout}))
                     (+) SetToBag({expiryMap'[id].timeout})
\* C21: the store holds its keys in the order of their first insertion since
\* they were last absent, each with the value last set, a set evicting for
\* capacity the oldest of these insertions, were it the key set again just
\* before; a set of a present key puts a new expiry timeout in the place of
\* the key's pending one.
C21_ResetKeepsPosition ==
    /\ [](cache = inserted)
    /\ [][(lastOp'.op = "set" /\ mapHas(cache, lastOp'.id)) => Rearmed(lastOp'.id)]_vars
\* In a full cache of capacity two the first key was set again, and the set of
\* a third key that came next has evicted it.
C21_Witness ==
    /\ lastOp.op = "set"
    /\ reset.evicted
    /\ maxEntries = 2
    /\ Len(cache) = 2

====
